---- MODULE Spec2Model ----
(***************************************************************************)
(* Model of the Family Expense Tracker data layer (main.py): the members   *)
(* and expenses tables of expenses.db and the FamilyExpenseTracker         *)
(* operations over them.  A text value is a sequence of one-character      *)
(* strings where the code inspects its characters (names), and a string    *)
(* where it only stores it.  An optional argument is None (<<>>) or        *)
(* Some(v) (<<v>>).  Amounts and earnings are integers (REAL values with   *)
(* no fractional part).  The members columns id and created_at, which no   *)
(* operation reads, are left out.                                          *)
(***************************************************************************)
EXTENDS Integers, Sequences, FiniteSets, TLC

VARIABLES
    members,        \* table members: set of rows [name, earning_status, earnings]
    expenses,       \* table expenses: set of rows
    expenses_seq,   \* sqlite_sequence entry of expenses (AUTOINCREMENT)
    now,            \* the clock behind datetime('now'), in whole seconds
    issued,         \* history: the ids given to expenses, in order of assignment
    last            \* the last call: [op, raised, changes, ret]

vars == <<members, expenses, expenses_seq, now, issued, last>>

---------------------------------------------------------------------------
\* Bounds of the model.

\* At most MaxId expenses are ever inserted.
MaxId == 2
\* Amounts passed to add_expense range over 0 .. MaxAmount (and None).
MaxAmount == 2
\* Earnings passed to add_member / update_member range over 0 .. MaxEarnings.
MaxEarnings == 1
\* The clock runs from 0 to MaxClock.
MaxClock == 1

None == <<>>
Some(v) == <<v>>

\* Raw names a caller passes: empty, blank, lower case, mixed case with a
\* leading blank, and a second name with a trailing blank.
RawNames ==
    { <<>>, <<" ">>, <<"a", "b">>, <<" ", "a", "B">>, <<"b", " ">> }

Earnings == 0 .. MaxEarnings
AmountInputs == {None} \cup {Some(a) : a \in 0 .. MaxAmount}
Dates == { <<2024, 1, 15>>, <<2024, 2, 1>> }
Date1 == <<2024, 1, 15>>
\* Period category, category and expense type as the expense form pairs them.
Kinds == { <<"one-time", "Food", "small">>, <<"monthly", "Housing", "big">> }
Kind1 == <<"one-time", "Food", "small">>
SubTypes == {None, Some("EMI1")}
Descriptions == {None, Some(""), Some("Groceries")}

---------------------------------------------------------------------------
\* Text: str.strip(), str.title(), and SQLite's BINARY collation.

IsSpace(c) == c = " "
IsCased(c) == c \in {"a", "b", "A", "B"}
Upper(c) == CASE c = "a" -> "A" [] c = "b" -> "B" [] OTHER -> c
Lower(c) == CASE c = "A" -> "a" [] c = "B" -> "b" [] OTHER -> c
Ord(c) == CASE c = " " -> 32 [] c = "A" -> 65 [] c = "B" -> 66
            [] c = "a" -> 97 [] c = "b" -> 98 [] OTHER -> 0

RECURSIVE lstrip(_)
lstrip(s) == IF s # <<>> /\ IsSpace(Head(s)) THEN lstrip(Tail(s)) ELSE s

RECURSIVE rstrip(_)
rstrip(s) ==
    IF s # <<>> /\ IsSpace(s[Len(s)]) THEN rstrip(SubSeq(s, 1, Len(s) - 1)) ELSE s

strip(s) == rstrip(lstrip(s))

\* str.title(): a cased character is upper-cased when the character before it
\* is not cased, lower-cased when it is; other characters are kept.
title(s) ==
    [i \in 1 .. Len(s) |->
        IF IsCased(s[i])
        THEN IF i > 1 /\ IsCased(s[i - 1]) THEN Lower(s[i]) ELSE Upper(s[i])
        ELSE s[i]]

\* (name or "").strip().title()
Normalize(name) == title(strip(name))

\* TEXT comparison of two character sequences, byte by byte.
RECURSIVE TextLess(_, _)
TextLess(s, t) ==
    IF t = <<>> THEN FALSE
    ELSE IF s = <<>> THEN TRUE
    ELSE IF Ord(Head(s)) # Ord(Head(t)) THEN Ord(Head(s)) < Ord(Head(t))
    ELSE TextLess(Tail(s), Tail(t))

\* ISO dates YYYY-MM-DD compared as TEXT: zero-padded, so year, month, day.
DateLess(d, e) ==
    \/ d[1] < e[1]
    \/ d[1] = e[1] /\ d[2] < e[2]
    \/ d[1] = e[1] /\ d[2] = e[2] /\ d[3] < e[3]

\* pd.to_datetime of an ISO date: the timestamp of its midnight.
to_datetime(d) ==
    [year |-> d[1], month |-> d[2], day |-> d[3], hour |-> 0, minute |-> 0, second |-> 0]

\* x or "": None and the empty string both become the empty string.
OrEmpty(x) == IF x = None \/ x = Some("") THEN "" ELSE x[1]

\* int(bool(earning_status))
IntOfBool(b) == IF b THEN 1 ELSE 0

---------------------------------------------------------------------------
\* SQL statements over the tables.

MemberNames(tbl) == {m.name : m \in tbl}
ExpenseIds(tbl) == {e.id : e \in tbl}

\* Faulty variant, INSERT OR REPLACE: a conflicting row is overwritten.
InsertOrReplaceMember(tbl, row) ==
    {m \in tbl : m.name # row.name} \cup {row}

\* INSERT OR IGNORE INTO members: name is UNIQUE, a conflicting row is dropped.
InsertOrIgnoreMember(tbl, row) ==
    IF row.name \in MemberNames(tbl) THEN tbl ELSE tbl \cup {row}

\* UPDATE members SET earning_status=?, earnings=? WHERE name=?
UpdateMember(tbl, earning_status, earnings, name) ==
    {IF m.name = name
        THEN [m EXCEPT !.earning_status = earning_status, !.earnings = earnings]
        ELSE m : m \in tbl}

\* DELETE FROM members WHERE name = ?
DeleteMember(tbl, name) == {m \in tbl : m.name # name}

MaxOf(S) == IF S = {} THEN 0 ELSE CHOOSE x \in S : \A y \in S : y <= x

\* Faulty variant, a key without AUTOINCREMENT: one more than the largest id
\* the table holds now.
NextRowIdReuse(tbl, seq) == MaxOf(ExpenseIds(tbl)) + 1

\* INTEGER PRIMARY KEY AUTOINCREMENT: one more than the largest id the table
\* has ever held, which sqlite_sequence records.
NextRowId(tbl, seq) == MaxOf(ExpenseIds(tbl) \cup {seq}) + 1

\* Faulty variant, WHERE id <= ?: every row up to the id goes.
DeleteExpenseUpTo(tbl, id) == {e \in tbl : e.id > id}

\* DELETE FROM expenses WHERE id = ?
DeleteExpense(tbl, id) == {e \in tbl : e.id # id}

---------------------------------------------------------------------------
\* The state after construction: init_db() has created two empty tables.

Init ==
    /\ members = {}
    /\ expenses = {}
    /\ expenses_seq = 0
    /\ now = 0
    /\ issued = <<>>
    /\ last = [op |-> "init_db", raised |-> FALSE, changes |-> 0, ret |-> None]

\* What a call leaves in last: whether it raised, the rows its statement
\* changed (SQLite's changes()), and the value it returned.
Returned(op, changes, ret) ==
    [op |-> op, raised |-> FALSE, changes |-> changes, ret |-> ret]
Raised(op) == [op |-> op, raised |-> TRUE, changes |-> 0, ret |-> None]

---------------------------------------------------------------------------
\* Members.

add_member(name, earning_status, earnings) ==
    LET n == Normalize(name) IN
    IF n = <<>>
    THEN /\ last' = Raised("add_member")
         /\ UNCHANGED <<members, expenses, expenses_seq, now, issued>>
    ELSE LET row == [name |-> n,
                     earning_status |-> IntOfBool(earning_status),
                     earnings |-> earnings]
             tbl == InsertOrIgnoreMember(members, row)
         IN /\ members' = tbl
            /\ last' = Returned("add_member",
                                Cardinality(tbl) - Cardinality(members), None)
            /\ UNCHANGED <<expenses, expenses_seq, now, issued>>

update_member(name, earning_status, earnings) ==
    LET key == title(name) IN
    /\ members' = UpdateMember(members, IntOfBool(earning_status), earnings, key)
    /\ last' = Returned("update_member",
                        Cardinality({m \in members : m.name = key}), None)
    /\ UNCHANGED <<expenses, expenses_seq, now, issued>>

\* Faulty variant: the delete cascades to the expenses of that person.
delete_member_cascade(member_name) ==
    /\ members' = DeleteMember(members, member_name)
    /\ expenses' = {e \in expenses : e.person # member_name}
    /\ last' = Returned("delete_member",
                        Cardinality({m \in members : m.name = member_name}), None)
    /\ UNCHANGED <<expenses_seq, now, issued>>

delete_member(member_name) ==
    /\ members' = DeleteMember(members, member_name)
    /\ last' = Returned("delete_member",
                        Cardinality({m \in members : m.name = member_name}), None)
    /\ UNCHANGED <<expenses, expenses_seq, now, issued>>

\* The members in ORDER BY name: the one sequence of all rows with names rising.
MembersOrdered(tbl) ==
    CHOOSE df \in [1 .. Cardinality(tbl) -> tbl] :
        \A i, j \in 1 .. Cardinality(tbl) :
            i < j => TextLess(df[i].name, df[j].name)

get_members_df ==
    /\ last' = Returned("get_members_df", 0, MembersOrdered(members))
    /\ UNCHANGED <<members, expenses, expenses_seq, now, issued>>

---------------------------------------------------------------------------
\* Expenses.

\* Faulty variant, < for <=: an amount of 0 passes.
AmountRejectedBelowZero(amount) == amount = None \/ amount[1] < 0

\* amount is None or float(amount) <= 0
AmountRejected(amount) == amount = None \/ amount[1] <= 0

\* Faulty variant: description and sub_type bound in each other's place.
ExpenseRowSwapped(id, person, description, amount, category_period, category, expense_type, sub_type, date_iso, created_at) ==
    [id |-> id,
     person |-> person,
     description |-> OrEmpty(sub_type),
     amount |-> amount[1],
     category_period |-> category_period,
     category |-> category,
     expense_type |-> expense_type,
     sub_type |-> OrEmpty(description),
     date |-> date_iso,
     created_at |-> created_at]

\* The row the INSERT stores: its bound parameters, the id and the timestamp
\* the table assigns.
ExpenseRow(id, person, description, amount, category_period, category, expense_type, sub_type, date_iso, created_at) ==
    [id |-> id,
     person |-> person,
     description |-> OrEmpty(description),
     amount |-> amount[1],
     category_period |-> category_period,
     category |-> category,
     expense_type |-> expense_type,
     sub_type |-> OrEmpty(sub_type),
     date |-> date_iso,
     created_at |-> created_at]

add_expense(person, amount, category_period, category, expense_type, sub_type, description, date_iso) ==
    LET p == Normalize(person) IN
    IF p = <<>> \/ AmountRejected(amount)
    THEN /\ last' = Raised("add_expense")
         /\ UNCHANGED <<members, expenses, expenses_seq, now, issued>>
    ELSE LET id == NextRowId(expenses, expenses_seq)
             row == ExpenseRow(id, p, description, amount, category_period,
                               category, expense_type, sub_type, date_iso, now)
         IN /\ Len(issued) < MaxId
            /\ expenses' = expenses \cup {row}
            /\ expenses_seq' = id
            /\ issued' = Append(issued, id)
            /\ last' = Returned("add_expense", 1, None)
            /\ UNCHANGED <<members, now>>

delete_expense(expense_id) ==
    /\ expenses' = DeleteExpense(expenses, expense_id)
    /\ last' = Returned("delete_expense",
                        Cardinality({e \in expenses : e.id = expense_id}), None)
    /\ UNCHANGED <<members, expenses_seq, now, issued>>

\* ORDER BY date DESC, created_at DESC: a row comes before another when its
\* date is later, or the dates are equal and its created_at is later.  Rows
\* equal in both may come in either order.
MayPrecede(a, b) ==
    /\ ~DateLess(a.date, b.date)
    /\ a.date = b.date => a.created_at >= b.created_at

\* The frames get_expenses_df may return: every row once, in an order the
\* ORDER BY allows, the date column parsed.
ExpenseFrames(tbl) ==
    LET n == Cardinality(tbl)
        orders == {s \in [1 .. n -> tbl] :
                     /\ \A i, j \in 1 .. n : i # j => s[i] # s[j]
                     /\ \A i, j \in 1 .. n : i < j => MayPrecede(s[i], s[j])}
    IN {[i \in 1 .. n |-> [s[i] EXCEPT !.date = to_datetime(s[i].date)]] :
            s \in orders}

get_expenses_df ==
    /\ \E df \in ExpenseFrames(expenses) : last' = Returned("get_expenses_df", 0, df)
    /\ UNCHANGED <<members, expenses, expenses_seq, now, issued>>

---------------------------------------------------------------------------
\* Aggregates.

\* df["earnings"].sum()
RECURSIVE SumEarnings(_)
SumEarnings(df) == IF df = <<>> THEN 0 ELSE Head(df).earnings + SumEarnings(Tail(df))

\* df["amount"].sum()
RECURSIVE SumAmount(_)
SumAmount(df) == IF df = <<>> THEN 0 ELSE Head(df).amount + SumAmount(Tail(df))

\* Faulty variant: only the members flagged as earning count.
RECURSIVE SumEarningsOfEarners(_)
SumEarningsOfEarners(df) ==
    IF df = <<>> THEN 0
    ELSE (IF Head(df).earning_status = 1 THEN Head(df).earnings ELSE 0)
         + SumEarningsOfEarners(Tail(df))
EarningsOfEarners(df) == IF df = <<>> THEN 0 ELSE SumEarningsOfEarners(df)

\* Faulty variant: a negative balance is shown as 0.
BalanceClamped(earned, spent) == IF earned < spent THEN 0 ELSE earned - spent

EarningsOf(df) == IF df = <<>> THEN 0 ELSE SumEarnings(df)
ExpenditureOf(df) == IF df = <<>> THEN 0 ELSE SumAmount(df)
BalanceOf(earned, spent) == earned - spent

total_earnings ==
    /\ last' = Returned("total_earnings", 0,
                        Some(EarningsOf(MembersOrdered(members))))
    /\ UNCHANGED <<members, expenses, expenses_seq, now, issued>>

total_expenditure ==
    /\ \E df \in ExpenseFrames(expenses) :
          last' = Returned("total_expenditure", 0, Some(ExpenditureOf(df)))
    /\ UNCHANGED <<members, expenses, expenses_seq, now, issued>>

remaining_balance ==
    /\ \E df \in ExpenseFrames(expenses) :
          last' = Returned("remaining_balance", 0,
                           Some(BalanceOf(EarningsOf(MembersOrdered(members)),
                                          ExpenditureOf(df))))
    /\ UNCHANGED <<members, expenses, expenses_seq, now, issued>>

---------------------------------------------------------------------------
\* The clock: a second passes.

Tick ==
    /\ now < MaxClock
    /\ now' = now + 1
    /\ UNCHANGED <<members, expenses, expenses_seq, issued, last>>

---------------------------------------------------------------------------
\* Names as stored, and the names a caller may pass to update and delete.

StoredNames == {Normalize(n) : n \in RawNames} \ {<<>>}
KeyNames == (RawNames \cup StoredNames) \ {<<>>, <<" ">>}
OneName == <<"a", "b">>
SameNames == {OneName, <<" ", "a", "B">>}
Persons == SameNames \cup {<<>>, <<" ">>}
FieldAmounts == {Some(1), Some(MaxAmount)}

\* The ledger: every member operation over all names and earnings, expenses
\* of every amount for one person; the expense fields that are only stored
\* are fixed.
Next ==
    \/ \E name \in RawNames, earning_status \in BOOLEAN, earnings \in Earnings :
          add_member(name, earning_status, earnings)
    \/ \E name \in KeyNames, earning_status \in BOOLEAN, earnings \in Earnings :
          update_member(name, earning_status, earnings)
    \/ \E member_name \in KeyNames : delete_member(member_name)
    \/ get_members_df
    \/ \E person \in Persons, amount \in AmountInputs :
          add_expense(person, amount, Kind1[1], Kind1[2], Kind1[3], None, None, Date1)
    \/ \E expense_id \in 1 .. MaxId + 1 : delete_expense(expense_id)
    \/ get_expenses_df
    \/ total_earnings
    \/ total_expenditure
    \/ remaining_balance

Spec == Init /\ [][Next]_vars

\* The calls that change the tables, over all names and earnings; expenses
\* of one person and one accepted amount.
CallAmounts == {None, Some(-1), Some(0), Some(MaxAmount)}

NextCalls ==
    \/ \E name \in RawNames, earning_status \in BOOLEAN, earnings \in Earnings :
          add_member(name, earning_status, earnings)
    \/ \E name \in KeyNames, earning_status \in BOOLEAN, earnings \in Earnings :
          update_member(name, earning_status, earnings)
    \/ \E member_name \in KeyNames : delete_member(member_name)
    \/ \E person \in Persons, amount \in CallAmounts :
          add_expense(person, amount, Kind1[1], Kind1[2], Kind1[3], None, None, Date1)
    \/ \E expense_id \in 1 .. MaxId + 1 : delete_expense(expense_id)

SpecCalls == Init /\ [][NextCalls]_vars

\* The expense repository over the expense fields: add_expense over every
\* kind, sub-type and description, delete_expense and the listing.
NextFields ==
    \/ \E person \in SameNames, amount \in FieldAmounts,
          kind \in Kinds, sub_type \in SubTypes, description \in Descriptions :
          add_expense(person, amount, kind[1], kind[2], kind[3],
                      sub_type, description, Date1)
    \/ \E expense_id \in 1 .. MaxId + 1 : delete_expense(expense_id)
    \/ get_expenses_df

SpecFields == Init /\ [][NextFields]_vars

\* The expense repository over time: expenses of one person on two dates,
\* added and deleted while the clock runs, and the listing.
NextOrder ==
    \/ Tick
    \/ \E amount \in {Some(0), Some(1)}, date_iso \in Dates :
          add_expense(OneName, amount, Kind1[1], Kind1[2], Kind1[3],
                      None, None, date_iso)
    \/ \E expense_id \in 1 .. MaxId + 1 : delete_expense(expense_id)
    \/ get_expenses_df

SpecOrder == Init /\ [][NextOrder]_vars

---------------------------------------------------------------------------
\* Totals over the tables themselves, row by row.

RECURSIVE AmountTotal(_)
AmountTotal(rows) ==
    IF rows = {} THEN 0
    ELSE LET r == CHOOSE r \in rows : TRUE IN r.amount + AmountTotal(rows \ {r})

RECURSIVE EarningsTotal(_)
EarningsTotal(rows) ==
    IF rows = {} THEN 0
    ELSE LET r == CHOOSE r \in rows : TRUE IN r.earnings + EarningsTotal(rows \ {r})

Range(s) == {s[i] : i \in 1 .. Len(s)}
TablesUnchanged == members' = members /\ expenses' = expenses

---------------------------------------------------------------------------
\* C1: whatever calls came before, total_expenditure() returns the sum of
\* amount over the stored expenses and total_earnings() the sum of earnings
\* over all stored members, whatever their earning_status; each returns 0
\* on an empty table.
C1_TotalsAreSums ==
    /\ last.op = "total_expenditure" =>
          /\ ~last.raised
          /\ last.ret = Some(AmountTotal(expenses))
          /\ expenses = {} => last.ret = Some(0)
    /\ last.op = "total_earnings" =>
          /\ ~last.raised
          /\ last.ret = Some(EarningsTotal(members))
          /\ members = {} => last.ret = Some(0)

\* total_earnings() has summed two members, one of them not earning but with
\* earnings, after an expense was added and deleted.
C1_Witness ==
    /\ last.op = "total_earnings"
    /\ Cardinality(members) = 2
    /\ \E m \in members : m.earning_status = 0 /\ m.earnings > 0
    /\ issued # <<>> /\ expenses = {}

\* C9: remaining_balance() returns total earnings minus total expenditure,
\* negative when more was spent than earned, and never raises.
C9_BalanceIsDifference ==
    last.op = "remaining_balance" =>
        /\ ~last.raised
        /\ last.ret = Some(EarningsTotal(members) - AmountTotal(expenses))

\* remaining_balance() has returned a negative balance.
C9_Witness ==
    /\ last.op = "remaining_balance"
    /\ AmountTotal(expenses) > EarningsTotal(members)
    /\ last.ret[1] < 0

\* C10: no id is ever given to two expenses: the ids assigned so far are
\* pairwise distinct, stored rows have distinct ids, each of them assigned,
\* so the id of a deleted expense never names a later one.
C10_IdsNeverReused ==
    /\ \A i, j \in 1 .. Len(issued) : i # j => issued[i] # issued[j]
    /\ \A e, f \in expenses : e.id = f.id => e = f
    /\ ExpenseIds(expenses) \subseteq Range(issued)

\* add_expense has just stored a second expense after the first, the one with
\* the highest id at the time, was deleted.
C10_Witness ==
    /\ last.op = "add_expense" /\ ~last.raised
    /\ Len(issued) = 2
    /\ ExpenseIds(expenses) = {issued[2]}

---------------------------------------------------------------------------
\* No two member rows carry one name.
NamesUnique == \A m, k \in members : m.name = k.name => m = k

\* What a step of add_member with an accepted name does.
AddMemberEffect ==
    last'.op = "add_member" =>
        \A name \in RawNames, earning_status \in BOOLEAN, earnings \in Earnings :
            add_member(name, earning_status, earnings) /\ Normalize(name) # <<>> =>
                LET n == Normalize(name)
                    df == MembersOrdered(members')
                IN /\ ~last'.raised
                   /\ expenses' = expenses
                   /\ Cardinality({i \in 1 .. Len(df) : df[i].name = n}) = 1
                   /\ IF n \in MemberNames(members)
                      THEN members' = members
                      ELSE /\ Cardinality(members') = Cardinality(members) + 1
                           /\ members \subseteq members'

\* C2: member names are unique, and add_member(n, ...) never raises on a
\* name that normalizes to a non-empty one: when a member of that normalized
\* name exists the members table is unchanged, otherwise one row is added;
\* either way list_members holds exactly one row of that name.
C2_UniqueNames == []NamesUnique /\ [][AddMemberEffect]_vars

\* add_member has returned without inserting: the name was already there.
C2_Witness ==
    /\ last.op = "add_member" /\ ~last.raised /\ last.changes = 0
    /\ members # {}

\* What a step of add_member or add_expense with a rejected argument does.
RejectedCallsChangeNothing ==
    /\ last'.op = "add_member" =>
          \A name \in RawNames, earning_status \in BOOLEAN, earnings \in Earnings :
              add_member(name, earning_status, earnings) /\ strip(name) = <<>> =>
                  last'.raised /\ TablesUnchanged
    /\ last'.op = "add_expense" =>
          \A person \in Persons, amount \in CallAmounts :
              /\ add_expense(person, amount, Kind1[1], Kind1[2], Kind1[3],
                             None, None, Date1)
              /\ strip(person) = <<>> \/ amount = None \/ amount[1] <= 0
              => last'.raised /\ TablesUnchanged /\ issued' = issued

\* C3: add_member with an empty or blank name, and add_expense with an empty
\* or blank person, with no amount or with an amount <= 0, raise and leave
\* both tables as they were.
C3_RejectedCallsChangeNothing == [][RejectedCallsChangeNothing]_vars

\* add_expense has raised while both tables held rows.
C3_Witness ==
    /\ last.op = "add_expense" /\ last.raised
    /\ members # {} /\ expenses # {}

\* What a step of delete_member does.
DeleteMemberEffect ==
    last'.op = "delete_member" =>
        \A member_name \in KeyNames :
            delete_member(member_name) =>
                /\ member_name \notin MemberNames(members')
                /\ \A i \in 1 .. Cardinality(members') :
                       MembersOrdered(members')[i].name # member_name
                /\ expenses' = expenses
                /\ ExpenseFrames(expenses') = ExpenseFrames(expenses)
                /\ \A df \in ExpenseFrames(expenses') :
                       ExpenditureOf(df) = AmountTotal(expenses)

\* C5: delete_member(name) leaves no member of that name and leaves the
\* expenses table, every frame list_expenses may return and the total
\* expenditure as they were.
C5_DeleteMemberKeepsExpenses == [][DeleteMemberEffect]_vars

\* delete_member has removed the member whose name an expense carries: the
\* other of the two names is still stored.
C5_Witness ==
    /\ last.op = "delete_member" /\ last.changes = 1
    /\ MemberNames(members) = StoredNames \ {Normalize(OneName)}
    /\ \E e \in expenses : e.person = Normalize(OneName)

\* What a delete or update of a record that is not stored does.
MissingRecordIsNoOp ==
    /\ last'.op = "delete_expense" =>
          \A expense_id \in 1 .. MaxId + 1 :
              delete_expense(expense_id) /\ expense_id \notin ExpenseIds(expenses) =>
                  ~last'.raised /\ TablesUnchanged
    /\ last'.op = "delete_member" =>
          \A member_name \in KeyNames :
              delete_member(member_name) /\ member_name \notin MemberNames(members) =>
                  ~last'.raised /\ TablesUnchanged
    /\ last'.op = "update_member" =>
          \A name \in KeyNames, earning_status \in BOOLEAN, earnings \in Earnings :
              /\ update_member(name, earning_status, earnings)
              /\ Normalize(name) \notin MemberNames(members)
              => ~last'.raised /\ TablesUnchanged

\* C6: delete_expense of an id that is not stored, delete_member of a name
\* that is not stored and update_member of a name whose normalized form is
\* not stored return without raising and leave both tables as they were.
C6_MissingRecordIsNoOp == [][MissingRecordIsNoOp]_vars

\* delete_expense has returned having deleted nothing, from a table that
\* holds an expense.
C6_Witness ==
    /\ last.op = "delete_expense" /\ ~last.raised /\ last.changes = 0
    /\ expenses # {}

\* What a step of update_member is to do for a raw name of a stored member.
UpdateMemberEffect ==
    last'.op = "update_member" =>
        \A name \in RawNames, earning_status \in BOOLEAN, earnings \in Earnings :
            /\ update_member(name, earning_status, earnings)
            /\ Normalize(name) \in MemberNames(members)
            => /\ [name |-> Normalize(name),
                   earning_status |-> IntOfBool(earning_status),
                   earnings |-> earnings] \in members'
               /\ MemberNames(members') = MemberNames(members)
               /\ \A m \in members : m.name # Normalize(name) => m \in members'
               /\ expenses' = expenses

\* C7: update_member(n, s, e), for a raw name n whose trimmed, title-cased
\* form is a stored member (as it is after add_member(n, ...)), leaves that
\* member with earning status s and earnings e, and changes no name, no
\* other member and no expense.
C7_UpdateByNormalizedName == [][UpdateMemberEffect]_vars

---------------------------------------------------------------------------
\* The calendar date of a timestamp that falls on a midnight.
DateOf(ts) == <<ts.year, ts.month, ts.day>>
IsMidnight(ts) == ts.hour = 0 /\ ts.minute = 0 /\ ts.second = 0

\* The rows of a frame that carry the given id.
RowsOf(df, id) == {i \in 1 .. Len(df) : df[i].id = id}

\* What every frame list_expenses may return after a successful add_expense
\* holds for the new expense, apart from sub-type and description: one row,
\* with the person normalized and the other fields as passed.
StoredAsPassed(df, id, person, amount, kind, date_iso) ==
    /\ Cardinality(RowsOf(df, id)) = 1
    /\ \A i \in RowsOf(df, id) :
          /\ df[i].person = Normalize(person)
          /\ df[i].amount = amount[1]
          /\ df[i].category_period = kind[1]
          /\ df[i].category = kind[2]
          /\ df[i].expense_type = kind[3]
          /\ DateOf(df[i].date) = date_iso /\ IsMidnight(df[i].date)

\* Every field but the person comes back from the listing as it was passed.
AllFieldsUnmodified ==
    last'.op = "add_expense" /\ ~last'.raised =>
        \A person \in SameNames, amount \in FieldAmounts,
           kind \in Kinds, sub_type \in SubTypes, description \in Descriptions :
            add_expense(person, amount, kind[1], kind[2], kind[3],
                        sub_type, description, Date1) =>
                \A df \in ExpenseFrames(expenses') :
                    /\ StoredAsPassed(df, expenses_seq', person, amount, kind, Date1)
                    /\ \A i \in RowsOf(df, expenses_seq') :
                          /\ Some(df[i].sub_type) = sub_type
                          /\ Some(df[i].description) = description

\* C4, as stated: every field of a successful add_expense, the person aside,
\* comes back unmodified from list_expenses, also a sub-type or description
\* of None.
C4_AllFieldsUnmodified == [][AllFieldsUnmodified]_vars

\* Every field comes back as passed, the person normalized and None as "".
FieldsRoundTrip ==
    last'.op = "add_expense" /\ ~last'.raised =>
        \A person \in SameNames, amount \in FieldAmounts,
           kind \in Kinds, sub_type \in SubTypes, description \in Descriptions :
            add_expense(person, amount, kind[1], kind[2], kind[3],
                        sub_type, description, Date1) =>
                \A df \in ExpenseFrames(expenses') :
                    /\ StoredAsPassed(df, expenses_seq', person, amount, kind, Date1)
                    /\ \A i \in RowsOf(df, expenses_seq') :
                          /\ df[i].sub_type = IF sub_type = None THEN "" ELSE sub_type[1]
                          /\ df[i].description =
                                IF description = None THEN "" ELSE description[1]

\* C4, as amended: amount, period category, category, expense type and date
\* come back as passed, the person normalized, and a sub-type or description
\* comes back as passed when it is a string and as the empty string when it
\* is None.
C4_FieldsRoundTrip == [][FieldsRoundTrip]_vars

\* add_expense has stored an expense with an empty sub-type, which only a
\* sub-type of None gives here, beside an expense stored before it.
C4_Witness ==
    /\ last.op = "add_expense" /\ ~last.raised
    /\ Cardinality(expenses) = 2
    /\ \E e \in expenses :
          e.id = expenses_seq /\ e.sub_type = "" /\ e.description = "Groceries"

---------------------------------------------------------------------------
\* C8: list_expenses returns the expenses by date descending and, among
\* expenses of one date, the one added later first, also when both were
\* added within the same second.
C8_LatestInsertedFirst ==
    last.op = "get_expenses_df" =>
        \A i, j \in 1 .. Len(last.ret) :
            i < j =>
                /\ ~DateLess(DateOf(last.ret[i].date), DateOf(last.ret[j].date))
                /\ last.ret[i].date = last.ret[j].date =>
                      last.ret[i].id > last.ret[j].id

====
